---- MODULE Spec2Model ----
(***************************************************************************)
(* Model of the motion-vector extraction and fusion pipeline of            *)
(* src/motion-vectors/basic/motion_vector_extractor.py                     *)
(* (class MotionVectorExtractor), and of the parallel batch run of         *)
(* src/motion-vectors/basic/batch_motion_vectors.py                        *)
(* (BatchMotionVectorProcessor.process_video_batch).                       *)
(*                                                                         *)
(* Numbers.  Pixel coordinates (centers, frame sizes, line end points) are *)
(* integers, as in the code.  Lengths (direction components, magnitudes,   *)
(* ellipse sizes, flow components) are fixed-point integers in hundredths  *)
(* of a pixel.  quality, confidence and the two thresholds are fixed-point *)
(* integers in thousandths, so a score (quality x confidence) is in        *)
(* millionths.  Blob areas are in half square pixels (cv2.contourArea      *)
(* returns multiples of 0.5).                                              *)
(***************************************************************************)
EXTENDS Integers, Sequences, FiniteSets, TLC

VARIABLES
    params,       \* self.params, the configuration dictionary
    disk,         \* the .png paths glob.glob finds under motion_vector_art
    frame_paths,  \* frame_paths of process_all_frames (sorted, filtered)
    pc,           \* position of process_all_frames
    results,      \* results of process_all_frames
    inputs,       \* per processed frame: what cv2 returned for it (history)
    overall,      \* the overall statistics process_all_frames prints
    all_tasks,      \* all_tasks of process_video_batch
    future_to_task, \* future_to_task: the task each submitted future runs
    futures,        \* per future: its state in the pool and, finished, its outcome
    fate,           \* per future: what happens to its commands (environment)
    max_workers,    \* max_workers of the ProcessPoolExecutor
    yielded,        \* the futures as_completed has yielded
    batch_results,  \* results of process_video_batch
    completed,      \* completed of process_video_batch
    bpc             \* position of process_video_batch

frame_vars == <<params, disk, frame_paths, pc, results, inputs, overall>>

batch_vars == <<all_tasks, future_to_task, futures, fate, max_workers, yielded,
                batch_results, completed, bpc>>

vars == <<frame_vars, batch_vars>>

\* a BatchMotionVectorProcessor on which process_video_batch was not called
BatchIdle ==
    /\ all_tasks = <<>>
    /\ future_to_task = <<>>
    /\ futures = <<>>
    /\ fate = <<>>
    /\ max_workers = 0
    /\ yielded = {}
    /\ batch_results = <<>>
    /\ completed = 0
    /\ bpc = "constructed"

-----------------------------------------------------------------------------
(* Bounds of the model *)

\* largest number of frame names on disk
MaxFrames == 2

\* largest number of candidates each cv2 primitive returns for one frame
MaxDet == 1

\* number of the styles of self.batch_styles a batch is run with (the first
\* ones)
MaxStyles == 2

-----------------------------------------------------------------------------
(* Program constants *)

\* dist < 15 in the duplicate test
DedupRadius == 15

\* frames whose larger side exceeds 600 are processed on a resized copy
DownscaleTarget == 600

\* step = 25 of the optical-flow sampling grid
FlowStep == 25

\* pixels -> hundredths of a pixel
Px(n) == n * 100

\* self.params as set by __init__ (lengths in hundredths of a pixel, scale
\* factors in hundredths, thresholds in thousandths)
DefaultParams ==
    [ max_vector_length     |-> Px(18),
      optimal_length        |-> Px(12),
      min_vector_length     |-> Px(4),
      ffmpeg_scale          |-> 40,
      flow_scale            |-> 25,
      edge_scale            |-> 50,
      quality_threshold     |-> 300,
      confidence_threshold  |-> 400,
      max_vectors_per_frame |-> 50 ]

-----------------------------------------------------------------------------
(* Arithmetic helpers *)

Min(a, b) == IF a <= b THEN a ELSE b
Max(a, b) == IF a >= b THEN a ELSE b

RECURSIVE SqrtSearch(_, _, _)
SqrtSearch(n, lo, hi) ==
    IF lo >= hi THEN lo
    ELSE LET mid == (lo + hi + 1) \div 2
         IN  IF mid * mid <= n THEN SqrtSearch(n, mid, hi)
                               ELSE SqrtSearch(n, lo, mid - 1)

\* np.sqrt on a fixed-point square: the largest r with r*r <= n
Sqrt(n) == SqrtSearch(n, 0, Min(n, 46340))

\* np.sqrt(dx*dx + dy*dy)
Length(dx, dy) == Sqrt(dx * dx + dy * dy)

\* the float product x * num / den, rounded towards zero to the fixed-point grid
Scale(x, num, den) ==
    IF x * num >= 0 THEN (x * num) \div den ELSE -((-(x * num)) \div den)

\* squared pixel distance between two centers
Dist2(a, b) == (a[1] - b[1]) * (a[1] - b[1]) + (a[2] - b[2]) * (a[2] - b[2])

RECURSIVE SeqSum(_)
SeqSum(s) == IF s = <<>> THEN 0 ELSE Head(s) + SeqSum(Tail(s))

RECURSIVE SeqMin(_)
SeqMin(s) == IF Len(s) = 1 THEN s[1] ELSE Min(Head(s), SeqMin(Tail(s)))

RECURSIVE SeqMax(_)
SeqMax(s) == IF Len(s) = 1 THEN s[1] ELSE Max(Head(s), SeqMax(Tail(s)))

\* the concatenation of a sequence of sequences
RECURSIVE Concat(_)
Concat(ss) == IF ss = <<>> THEN <<>> ELSE Head(ss) \o Concat(Tail(ss))

-----------------------------------------------------------------------------
(* The length constraints shared by the three extractors *)

\* the constraint applied to dx and to dy one by one
ClampComponents(dx, dy, p) ==
    <<Min(dx, p.max_vector_length), Min(dy, p.max_vector_length),
      Min(Length(dx, dy), p.max_vector_length)>>

\* "Apply length constraints": a direction longer than max_vector_length is
\* rescaled to it; the result is <<dx, dy, vector_length>>
ApplyLengthConstraints(dx, dy, p) ==
    LET vector_length == Length(dx, dy)
    IN  IF vector_length > p.max_vector_length
        THEN <<Scale(dx, p.max_vector_length, vector_length),
               Scale(dy, p.max_vector_length, vector_length),
               p.max_vector_length>>
        ELSE <<dx, dy, vector_length>>

\* "if vector_length >= self.params['min_vector_length']"
LongEnough(vector_length, p) == vector_length >= p.min_vector_length

-----------------------------------------------------------------------------
(* extract_ffmpeg_vectors *)

\* the confidence falling by 0.2 for each range
FfmpegConfidenceSteep(range_idx) == 900 - range_idx * 200

\* confidence = 0.9 - range_idx * 0.1
FfmpegConfidence(range_idx) == 900 - range_idx * 100

\* the band without its two ends
AreaInBandOpen(area2) == 4 < area2 /\ area2 < 100

\* 2 <= area <= 50 (area2 is twice the area)
AreaInBand(area2) == 4 <= area2 /\ area2 <= 100

\* len(contour) >= 5, needed by cv2.fitEllipse
EnoughPoints(npts) == npts >= 5

\* 'quality': min(area / 50.0, 1.0)
FfmpegQuality(area2) == Min(area2 * 10, 1000)

\* the arrow of a contour before the length constraints: magnitude =
\* max(width, height) * ffmpeg_scale, dx = magnitude * cos, dy = magnitude * sin
FfmpegArrow(b, p) ==
    LET magnitude == Scale(b.size, p.ffmpeg_scale, 100)
    IN  <<Scale(magnitude, b.ang[1], 5), Scale(magnitude, b.ang[2], 5)>>

\* the detection of one contour, as a sequence of zero or one detections.
\* A blob is [range_idx, area2, npts, cx, cy, size, ang]: size is
\* max(width, height) of the fitted ellipse and ang = <<c, s>> stands for
\* cos(angle_rad) = c/5, sin(angle_rad) = s/5.
FfmpegDetection(b, p) ==
    IF ~(AreaInBand(b.area2) /\ EnoughPoints(b.npts)) THEN <<>>
    ELSE LET d == FfmpegArrow(b, p)
             c == ApplyLengthConstraints(d[1], d[2], p)
         IN  IF LongEnough(c[3], p)
             THEN << [ center     |-> <<b.cx, b.cy>>,
                       direction  |-> <<c[1], c[2]>>,
                       magnitude  |-> c[3],
                       quality    |-> FfmpegQuality(b.area2),
                       confidence |-> FfmpegConfidence(b.range_idx),
                       method     |-> "ffmpeg",
                       evidence   |-> b.area2 ] >>
             ELSE <<>>

\* the three masks with the narrowest first and the widest last
GreenRangesNarrowestFirst ==
    << [lower |-> <<45, 80, 80>>, upper |-> <<75, 255, 255>>],
       [lower |-> <<40, 60, 60>>, upper |-> <<80, 255, 255>>],
       [lower |-> <<35, 45, 45>>, upper |-> <<85, 255, 255>>] >>

\* green_ranges: the (lower, upper) HSV bounds of the three masks, in the
\* order of the list; range_idx is the position in it, counted from 0
green_ranges ==
    << [lower |-> <<40, 60, 60>>, upper |-> <<80, 255, 255>>],
       [lower |-> <<35, 45, 45>>, upper |-> <<85, 255, 255>>],
       [lower |-> <<45, 80, 80>>, upper |-> <<75, 255, 255>>] >>

\* the loop over green_ranges (outer) and over each range's contours (inner)
extract_ffmpeg_vectors(blobs, p) ==
    LET OfRange(r) ==
            LET InRange(b) == b.range_idx = r
                contours == SelectSeq(blobs, InRange)
            IN  Concat([k \in 1..Len(contours) |-> FfmpegDetection(contours[k], p)])
    IN  Concat([n \in 1..Len(green_ranges) |-> OfRange(n - 1)])

-----------------------------------------------------------------------------
(* extract_optical_flow_vectors *)

\* "if magnitude > 0.8"
SignificantMotion(magnitude) == magnitude > 80

\* magnitude / 4.0 without the min(..., 1.0)
FlowQualityUncapped(magnitude) == Scale(magnitude, 1000, Px(4))

\* 'quality': min(magnitude / 4.0, 1.0)
FlowQuality(magnitude) == Min(Scale(magnitude, 1000, Px(4)), 1000)

\* "Scale flow vector": dx = fx * flow_scale, dy = fy * flow_scale
ScaledFlow(s, p) ==
    <<Scale(s.fx, p.flow_scale, 100), Scale(s.fy, p.flow_scale, 100)>>

\* the detection of one grid sample [x, y, fx, fy]
FlowDetection(s, p) ==
    LET magnitude == Length(s.fx, s.fy)
    IN  IF ~SignificantMotion(magnitude) THEN <<>>
        ELSE LET d == ScaledFlow(s, p)
                 c == ApplyLengthConstraints(d[1], d[2], p)
             IN  IF LongEnough(c[3], p)
                 THEN << [ center     |-> <<s.x, s.y>>,
                           direction  |-> <<c[1], c[2]>>,
                           magnitude  |-> c[3],
                           quality    |-> FlowQuality(magnitude),
                           confidence |-> 700,
                           method     |-> "flow",
                           evidence   |-> magnitude ] >>
                 ELSE <<>>

\* the grid loop; an exception of cv2.calcOpticalFlowFarneback is caught
\* inside the extractor, which then returns the empty list
extract_optical_flow_vectors(samples, raised, p) ==
    IF raised THEN <<>>
    ELSE Concat([k \in 1..Len(samples) |-> FlowDetection(samples[k], p)])

-----------------------------------------------------------------------------
(* extract_edge_vectors *)

\* 'quality': min(original_length / 30.0, 1.0)
EdgeQuality(original_length) == Min(Scale(original_length, 1000, Px(30)), 1000)

\* cx, cy = (x1 + x2) // 2, (y1 + y2) // 2
EdgeCenter(l) == <<(l.x1 + l.x2) \div 2, (l.y1 + l.y2) \div 2>>

\* "Scale and constrain": dx, dy = x2 - x1, y2 - y1, each times edge_scale
ScaledEdge(l, p) ==
    <<Scale(Px(l.x2 - l.x1), p.edge_scale, 100),
      Scale(Px(l.y2 - l.y1), p.edge_scale, 100)>>

\* the detection of one Hough segment [x1, y1, x2, y2]
EdgeDetection(l, p) ==
    LET original_length == Length(Px(l.x2 - l.x1), Px(l.y2 - l.y1))
        d == ScaledEdge(l, p)
        c == ApplyLengthConstraints(d[1], d[2], p)
    IN  IF LongEnough(c[3], p)
        THEN << [ center     |-> EdgeCenter(l),
                  direction  |-> <<c[1], c[2]>>,
                  magnitude  |-> c[3],
                  quality    |-> EdgeQuality(original_length),
                  confidence |-> 600,
                  method     |-> "edge",
                  evidence   |-> original_length ] >>
        ELSE <<>>

extract_edge_vectors(lines, p) ==
    Concat([k \in 1..Len(lines) |-> EdgeDetection(lines[k], p)])

-----------------------------------------------------------------------------
(* extract_motion_vectors_from_frame *)

\* A frame is what cv2 makes of one file: [readable, w, h, blobs, samples,
\* lines, raises].  readable = FALSE is cv2.imread returning None; blobs,
\* samples and lines are what the contour finder, the dense flow field and
\* the Hough transform return on the (resized) frame; raises is the set of
\* extractors in which a cv2 call throws.

\* the result of a frame that could not be loaded
LoadError == [vectors |-> <<>>, error |-> "Could not load frame"]

\* "if max(h, w) > 600": the frame is processed on a resized copy
Downscaled(w, h) == Max(h, w) > DownscaleTarget

\* (new_w, new_h) = (int(w * scale), int(h * scale)), scale = 600 / max(h, w)
ResizedSize(w, h) ==
    IF Downscaled(w, h)
    THEN <<(w * DownscaleTarget) \div Max(h, w), (h * DownscaleTarget) \div Max(h, w)>>
    ELSE <<w, h>>

\* the scaling back with the center taken as (row, column)
ScaleBackSwappingAxes(v, w, h) ==
    IF Max(h, w) <= DownscaleTarget THEN v
    ELSE LET m == Max(h, w)
         IN  [v EXCEPT
                !.center    = <<(v.center[2] * m) \div DownscaleTarget,
                                (v.center[1] * m) \div DownscaleTarget>>,
                !.direction = <<Scale(v.direction[1], m * 8, DownscaleTarget * 10),
                                Scale(v.direction[2], m * 8, DownscaleTarget * 10)>>,
                !.magnitude = Scale(v.magnitude, m * 8, DownscaleTarget * 10)]

\* the scaling back without "vector['magnitude'] *= scale_back * 0.8"
ScaleBackStaleMagnitude(v, w, h) ==
    IF Max(h, w) <= DownscaleTarget THEN v
    ELSE LET m == Max(h, w)
         IN  [v EXCEPT
                !.center    = <<(v.center[1] * m) \div DownscaleTarget,
                                (v.center[2] * m) \div DownscaleTarget>>,
                !.direction = <<Scale(v.direction[1], m * 8, DownscaleTarget * 10),
                                Scale(v.direction[2], m * 8, DownscaleTarget * 10)>>]

\* the scaling back with the factor 0.8 on the center as well
ScaleBackDampingCenter(v, w, h) ==
    IF Max(h, w) <= DownscaleTarget THEN v
    ELSE LET m == Max(h, w)
         IN  [v EXCEPT
                !.center    = <<(v.center[1] * m * 8) \div (DownscaleTarget * 10),
                                (v.center[2] * m * 8) \div (DownscaleTarget * 10)>>,
                !.direction = <<Scale(v.direction[1], m * 8, DownscaleTarget * 10),
                                Scale(v.direction[2], m * 8, DownscaleTarget * 10)>>,
                !.magnitude = Scale(v.magnitude, m * 8, DownscaleTarget * 10)]

\* "Scale vectors back to original size": scale_back = max(h, w) / 600;
\* center by int(c * scale_back), direction and magnitude by scale_back * 0.8
ScaleBack(v, w, h) ==
    IF ~Downscaled(w, h) THEN v
    ELSE LET m == Max(h, w)
         IN  [v EXCEPT
                !.center    = <<(v.center[1] * m) \div DownscaleTarget,
                                (v.center[2] * m) \div DownscaleTarget>>,
                !.direction = <<Scale(v.direction[1], m * 8, DownscaleTarget * 10),
                                Scale(v.direction[2], m * 8, DownscaleTarget * 10)>>,
                !.magnitude = Scale(v.magnitude, m * 8, DownscaleTarget * 10)]

\* all_vectors before the scaling back: the three extractors' lists,
\* concatenated in the order of the calls
ExtractedVectors(fr, p) ==
    extract_ffmpeg_vectors(fr.blobs, p)
    \o extract_optical_flow_vectors(fr.samples, "flow" \in fr.raises, p)
    \o extract_edge_vectors(fr.lines, p)

\* all_vectors: the three extractors' lists, concatenated, scaled back
AllVectors(fr, p) ==
    LET raw == ExtractedVectors(fr, p)
    IN  [k \in 1..Len(raw) |-> ScaleBack(raw[k], fr.w, fr.h)]

\* the filter condition on the confidence alone
PassesFilterOnConfidence(v, p) == v.confidence >= p.confidence_threshold

\* the filter condition with > in the place of >=
PassesFilterStrict(v, p) ==
    /\ v.quality > p.quality_threshold
    /\ v.confidence > p.confidence_threshold

\* the filter condition on one vector
PassesFilter(v, p) ==
    /\ v.quality >= p.quality_threshold
    /\ v.confidence >= p.confidence_threshold

\* filtered_vectors
FilterVectors(all_vectors, p) ==
    LET Pass(v) == PassesFilter(v, p) IN SelectSeq(all_vectors, Pass)

\* the combined score v['quality'] * v['confidence']
Score(v) == v.quality * v.confidence

\* v inserted into a list sorted by ascending score (reverse=True left out)
RECURSIVE InsertByScoreAscending(_, _)
InsertByScoreAscending(sorted, v) ==
    IF sorted = <<>> THEN <<v>>
    ELSE IF Score(Head(sorted)) <= Score(v)
         THEN <<Head(sorted)>> \o InsertByScoreAscending(Tail(sorted), v)
         ELSE <<v>> \o sorted

\* the descending order of a sort that is not stable: v goes before the
\* elements of its own score
RECURSIVE InsertBeforeTies(_, _)
InsertBeforeTies(sorted, v) ==
    IF sorted = <<>> THEN <<v>>
    ELSE IF Score(Head(sorted)) > Score(v)
         THEN <<Head(sorted)>> \o InsertBeforeTies(Tail(sorted), v)
         ELSE <<v>> \o sorted

\* v inserted into a list sorted by descending score, after every element
\* whose score is at least its own (list.sort is stable, also with reverse)
RECURSIVE InsertByScore(_, _)
InsertByScore(sorted, v) ==
    IF sorted = <<>> THEN <<v>>
    ELSE IF Score(Head(sorted)) >= Score(v)
         THEN <<Head(sorted)>> \o InsertByScore(Tail(sorted), v)
         ELSE <<v>> \o sorted

\* the filtered list left in extraction order
Unsorted(s) == s

\* scored_vectors.sort(key=score, reverse=True), without the score column
RECURSIVE SortByScore(_)
SortByScore(s) ==
    IF s = <<>> THEN <<>>
    ELSE InsertByScore(SortByScore(SubSeq(s, 1, Len(s) - 1)), s[Len(s)])

\* the duplicate test with the squared distance compared to the radius itself
TooCloseUnsquared(a, b) == Dist2(a.center, b.center) < DedupRadius

\* "if dist < 15": np.sqrt(n) < 15 exactly when n < 225 for an integer n
TooClose(a, b) == Dist2(a.center, b.center) < DedupRadius * DedupRadius

\* is_duplicate of the inner loop
IsDuplicate(v, final_vectors) ==
    \E k \in 1..Len(final_vectors) : TooClose(v, final_vectors[k])

\* the break test that stops one vector short of the cap
CapReachedEarly(final_vectors, p) ==
    Len(final_vectors) + 1 >= p.max_vectors_per_frame

\* the break test, made after the append
CapReached(final_vectors, p) == Len(final_vectors) >= p.max_vectors_per_frame

\* the loop started at the second element of scored_vectors
RECURSIVE RemoveDuplicatesSkippingFirst(_, _, _)
RemoveDuplicatesSkippingFirst(scored, final_vectors, p) ==
    LET rest == IF final_vectors = <<>> /\ scored # <<>> THEN Tail(scored) ELSE scored
    IN  IF rest = <<>> THEN final_vectors
        ELSE IF IsDuplicate(Head(rest), final_vectors)
             THEN RemoveDuplicatesSkippingFirst(Tail(rest), final_vectors, p)
             ELSE LET appended == Append(final_vectors, Head(rest))
                  IN  IF CapReached(appended, p) THEN appended
                      ELSE RemoveDuplicatesSkippingFirst(Tail(rest), appended, p)

\* the same loop with final_vectors.insert(0, vector) for the append
RECURSIVE RemoveDuplicatesPrepending(_, _, _)
RemoveDuplicatesPrepending(scored, final_vectors, p) ==
    IF scored = <<>> THEN final_vectors
    ELSE IF IsDuplicate(Head(scored), final_vectors)
         THEN RemoveDuplicatesPrepending(Tail(scored), final_vectors, p)
         ELSE LET prepended == <<Head(scored)>> \o final_vectors
              IN  IF CapReached(prepended, p) THEN prepended
                  ELSE RemoveDuplicatesPrepending(Tail(scored), prepended, p)

\* the "Remove duplicates" loop over the rest of scored_vectors
RECURSIVE RemoveDuplicates(_, _, _)
RemoveDuplicates(scored, final_vectors, p) ==
    IF scored = <<>> THEN final_vectors
    ELSE IF IsDuplicate(Head(scored), final_vectors)
         THEN RemoveDuplicates(Tail(scored), final_vectors, p)
         ELSE LET appended == Append(final_vectors, Head(scored))
              IN  IF CapReached(appended, p) THEN appended
                  ELSE RemoveDuplicates(Tail(scored), appended, p)

\* filter, score, sort, greedy duplicate removal, cap
Fuse(all_vectors, p) ==
    RemoveDuplicates(SortByScore(FilterVectors(all_vectors, p)), <<>>, p)

\* method_counts with a key for each of the three methods, also at count 0
MethodCountsAllMethods(final_vectors) ==
    [m \in {"ffmpeg", "flow", "edge"} |->
        Cardinality({k \in 1..Len(final_vectors) : final_vectors[k].method = m})]

\* method_counts
MethodCounts(final_vectors) ==
    LET methods == {final_vectors[k].method : k \in 1..Len(final_vectors)}
    IN  [m \in methods |->
            Cardinality({k \in 1..Len(final_vectors) : final_vectors[k].method = m})]

\* the same without the "if lengths else 0" guards: np.mean of an empty list
\* is not a number, written here as -1
StatsUnguarded(xs) ==
    IF xs = <<>> THEN [min |-> -1, max |-> -1, avg |-> -1]
    ELSE [min |-> SeqMin(xs), max |-> SeqMax(xs), avg |-> SeqSum(xs) \div Len(xs)]

\* {'min', 'max', 'avg'} of a list, all 0 for the empty list
Stats(xs) ==
    IF xs = <<>> THEN [min |-> 0, max |-> 0, avg |-> 0]
    ELSE [min |-> SeqMin(xs), max |-> SeqMax(xs), avg |-> SeqSum(xs) \div Len(xs)]

\* the same dictionary without its 'quality_stats' entry
FrameResultWithoutQualityStats(frame_path, fr, p) ==
    LET final_vectors == Fuse(AllVectors(fr, p), p)
    IN  [ vectors             |-> final_vectors,
          frame_path          |-> frame_path,
          frame_size          |-> <<fr.w, fr.h>>,
          total_vectors       |-> Len(final_vectors),
          method_distribution |-> MethodCounts(final_vectors),
          length_stats        |->
              Stats([k \in 1..Len(final_vectors) |-> final_vectors[k].magnitude]) ]

\* the dictionary returned for a frame that was loaded
FrameResult(frame_path, fr, p) ==
    LET final_vectors == Fuse(AllVectors(fr, p), p)
    IN  [ vectors             |-> final_vectors,
          frame_path          |-> frame_path,
          frame_size          |-> <<fr.w, fr.h>>,
          total_vectors       |-> Len(final_vectors),
          method_distribution |-> MethodCounts(final_vectors),
          length_stats        |->
              Stats([k \in 1..Len(final_vectors) |-> final_vectors[k].magnitude]),
          quality_stats       |->
              Stats([k \in 1..Len(final_vectors) |-> final_vectors[k].quality]) ]

\* the same without the "frame is None" test: frame.shape raises as well
PropagatesUnchecked(fr) == ~fr.readable \/ (fr.raises \cap {"ffmpeg", "edge"}) # {}

\* an exception leaves extract_motion_vectors_from_frame: the FFmpeg and the
\* edge extractor catch nothing, and neither does their caller
Propagates(fr) == fr.readable /\ (fr.raises \cap {"ffmpeg", "edge"}) # {}

\* what extract_motion_vectors_from_frame returns when it returns
extract_motion_vectors_from_frame(frame_path, fr, p) ==
    IF ~fr.readable THEN LoadError ELSE FrameResult(frame_path, fr, p)

-----------------------------------------------------------------------------
(* find_motion_vector_frames *)

\* A path is [name, analysis]: analysis says that the path contains
\* 'detection_analysis'.  Paths are ordered as sorted() orders the strings.
Paths == [name : 1..MaxFrames, analysis : BOOLEAN]

PathKey(path) == 2 * path.name + (IF path.analysis THEN 1 ELSE 0)

RECURSIVE SortedPaths(_)
\* sorted(...) of a set of paths
SortedPaths(S) ==
    IF S = {} THEN <<>>
    ELSE LET first == CHOOSE x \in S : \A y \in S : PathKey(x) <= PathKey(y)
         IN  <<first>> \o SortedPaths(S \ {first})

\* the glob result without the analysis files, sorted
find_motion_vector_frames(all_frames) ==
    SortedPaths({path \in all_frames : ~path.analysis})

-----------------------------------------------------------------------------
(* Inputs *)

SeqsUpTo(S, n) == UNION {[1..k -> S] : k \in 0..n}

\* contours of the green masks
Blobs ==
    { [range_idx |-> 0, area2 |-> 30, npts |-> 6, cx |-> 40, cy |-> 40,
       size |-> Px(25), ang |-> <<3, 4>>],
      [range_idx |-> 1, area2 |-> 100, npts |-> 8, cx |-> 49, cy |-> 52,
       size |-> Px(50), ang |-> <<3, 4>>],
      [range_idx |-> 0, area2 |-> 50, npts |-> 5, cx |-> 60, cy |-> 40,
       size |-> Px(8), ang |-> <<5, 0>>] }

\* samples of the flow field at grid points
Samples ==
    { [x |-> 2 * FlowStep, y |-> 2 * FlowStep, fx |-> Px(16), fy |-> 0],
      [x |-> 3 * FlowStep, y |-> 2 * FlowStep, fx |-> -Px(48), fy |-> Px(64)],
      [x |-> 2 * FlowStep, y |-> 3 * FlowStep, fx |-> Px(1), fy |-> 0] }

\* segments of the Hough transform
Lines ==
    { [x1 |-> 30, y1 |-> 40, x2 |-> 50, y2 |-> 40],
      [x1 |-> 25, y1 |-> 34, x2 |-> 73, y2 |-> 70],
      [x1 |-> 60, y1 |-> 60, x2 |-> 66, y2 |-> 60] }

\* frame sizes (w, h): the largest that is not resized, resized by 600/675,
\* resized by 600/1200
Sizes == {<<600, 400>>, <<675, 400>>, <<1200, 800>>}

\* a file cv2.imread cannot load
Unreadable ==
    [readable |-> FALSE, w |-> 0, h |-> 0, blobs |-> <<>>, samples |-> <<>>,
     lines |-> <<>>, raises |-> {}]

\* the grid of the flow sampler on a frame of the resized size
OnGrid(s, w, h) ==
    LET r == ResizedSize(w, h)
    IN  /\ s.x % FlowStep = 0 /\ FlowStep <= s.x /\ s.x < r[1] - FlowStep
        /\ s.y % FlowStep = 0 /\ FlowStep <= s.y /\ s.y < r[2] - FlowStep

\* the frames of the single-frame specification: no cv2 call throws
FrameInputs ==
    {Unreadable} \cup
    { fr \in [readable : {TRUE}, w : {sz[1] : sz \in Sizes}, h : {sz[2] : sz \in Sizes},
              blobs : SeqsUpTo(Blobs, MaxDet), samples : SeqsUpTo(Samples, MaxDet),
              lines : SeqsUpTo(Lines, MaxDet), raises : {{}}] :
        /\ <<fr.w, fr.h>> \in Sizes
        /\ \A k \in 1..Len(fr.samples) : OnGrid(fr.samples[k], fr.w, fr.h) }

\* the frames of the batch specification: a cv2 call may throw in one extractor
BatchInputs ==
    {Unreadable} \cup
    { fr \in [readable : {TRUE}, w : {400, 1200}, h : {300, 800},
              blobs : {<<>>, <<CHOOSE b \in Blobs : b.cx = 40>>},
              samples : {<<CHOOSE s \in Samples : s.fy > 0>>},
              lines : {<<>>, <<CHOOSE l \in Lines : l.y2 = 70>>},
              raises : {{}, {"ffmpeg"}, {"flow"}, {"edge"}}] :
        <<fr.w, fr.h>> \in {<<400, 300>>, <<1200, 800>>} }

\* the constructor's configuration, and the same with a minimum length above
\* the maximum length
ExtractParams ==
    {DefaultParams, [DefaultParams EXCEPT !.min_vector_length = Px(20)]}

\* configurations of the single-frame specification
ParamChoices ==
    ExtractParams \cup
    { [DefaultParams EXCEPT !.max_vectors_per_frame = cap,
                            !.confidence_threshold = ct] :
        cap \in {0, 1, 2, 50}, ct \in {400, 700} }

-----------------------------------------------------------------------------
(* process_all_frames *)

\* results.insert(0, result)
RecordResultFirst(rs, result) == <<result>> \o rs

\* results.append(result)
RecordResult(rs, result) == Append(rs, result)

\* a result carries the 'error' key
HasError(r) == "error" \in DOMAIN r

\* valid_results = [r for r in results if 'error' not in r]
ValidResults(rs) ==
    LET Valid(r) == ~HasError(r) IN SelectSeq(rs, Valid)

\* the number of valid results in the place of the sum of their vectors
CountFrames(valid_results) == Len(valid_results)

\* total_vectors = sum(r['total_vectors'] for r in valid_results)
TotalVectors(valid_results) ==
    SeqSum([k \in 1..Len(valid_results) |-> valid_results[k].total_vectors])

\* the vectors the loops "for result in valid_results: for vector in
\* result['vectors']" go through, in their order
VectorsOf(valid_results) ==
    Concat([k \in 1..Len(valid_results) |-> valid_results[k].vectors])

\* the overall statistics before they are computed, and when there is no
\* valid result
NotComputed == [computed |-> FALSE]

\* "Overall statistics": total_vectors, all_lengths and all_methods, computed
\* only under "if valid_results"
OverallStatistics(rs) ==
    LET valid_results == ValidResults(rs)
        vectors == VectorsOf(valid_results)
    IN  IF valid_results = <<>> THEN NotComputed
        ELSE [ computed         |-> TRUE,
               processed_frames |-> Len(valid_results),
               total_vectors    |-> TotalVectors(valid_results),
               all_lengths      |-> [k \in 1..Len(vectors) |-> vectors[k].magnitude],
               all_methods      |-> MethodCounts(vectors) ]

\* construction, with the directory as glob will find it
Init ==
    /\ params = DefaultParams
    /\ disk \in SUBSET Paths
    /\ frame_paths = <<>>
    /\ pc = "start"
    /\ results = <<>>
    /\ inputs = <<>>
    /\ overall = NotComputed
    /\ BatchIdle

\* frame_paths = self.find_motion_vector_frames(); return [] if there is none
Start ==
    /\ pc = "start"
    /\ frame_paths' = find_motion_vector_frames(disk)
    /\ pc' = IF frame_paths' = <<>> THEN "done" ELSE "loop"
    /\ UNCHANGED <<params, disk, results, inputs, overall>>
    /\ UNCHANGED batch_vars

\* one iteration of "for i, frame_path in enumerate(frame_paths)" on a frame
\* drawn from F
ProcessFrameFrom(F) ==
    /\ pc = "loop"
    /\ Len(inputs) < Len(frame_paths)
    /\ \E fr \in F :
        LET frame_path == frame_paths[Len(inputs) + 1]
        IN  /\ inputs' = Append(inputs, [frame_path |-> frame_path, frame |-> fr])
            /\ IF Propagates(fr)
               THEN /\ pc' = "raised"
                    /\ results' = results
               ELSE /\ pc' = pc
                    /\ results' = RecordResult(results,
                           extract_motion_vectors_from_frame(frame_path, fr, params))
    /\ UNCHANGED <<params, disk, frame_paths, overall>>
    /\ UNCHANGED batch_vars

ProcessFrame == ProcessFrameFrom(BatchInputs)

\* the same with an aggregation loop that cuts every magnitude it reads to
\* optimal_length in place
FinishClampingMagnitudes ==
    LET Clamped(v) == [v EXCEPT !.magnitude = Min(v.magnitude, params.optimal_length)]
        ClampedAll(vs) == [k \in 1..Len(vs) |-> Clamped(vs[k])]
    IN  /\ pc = "loop"
        /\ Len(inputs) = Len(frame_paths)
        /\ pc' = "done"
        /\ overall' = OverallStatistics(results)
        /\ results' = [i \in 1..Len(results) |->
                          IF HasError(results[i]) THEN results[i]
                          ELSE [results[i] EXCEPT !.vectors = ClampedAll(results[i].vectors)]]
        /\ UNCHANGED <<params, disk, frame_paths, inputs>>
        /\ UNCHANGED batch_vars

\* the loop is over: the overall statistics are printed, results returned
Finish ==
    /\ pc = "loop"
    /\ Len(inputs) = Len(frame_paths)
    /\ pc' = "done"
    /\ overall' = OverallStatistics(results)
    /\ UNCHANGED <<params, disk, frame_paths, results, inputs>>
    /\ UNCHANGED batch_vars

Next == Start \/ ProcessFrame \/ Finish

Spec == Init /\ [][Next]_vars

-----------------------------------------------------------------------------
(* extract_motion_vectors_from_frame on one frame, under any configuration *)

InitFrame ==
    /\ params \in ParamChoices
    /\ disk = {[name |-> 1, analysis |-> FALSE]}
    /\ frame_paths = find_motion_vector_frames(disk)
    /\ pc = "loop"
    /\ results = <<>>
    /\ inputs = <<>>
    /\ overall = NotComputed
    /\ BatchIdle

ExtractFrame == ProcessFrameFrom(FrameInputs)

NextFrame == ExtractFrame

SpecFrame == InitFrame /\ [][NextFrame]_vars

-----------------------------------------------------------------------------
(* the extractors and the scaling back on one frame *)

InitExtract ==
    /\ params \in ExtractParams
    /\ disk = {[name |-> 1, analysis |-> FALSE]}
    /\ frame_paths = find_motion_vector_frames(disk)
    /\ pc = "loop"
    /\ results = <<>>
    /\ inputs = <<>>
    /\ overall = NotComputed
    /\ BatchIdle

ExtractVectors == ProcessFrameFrom(FrameInputs)

NextExtract == ExtractVectors

SpecExtract == InitExtract /\ [][NextExtract]_vars

-----------------------------------------------------------------------------
(* extract_ffmpeg_vectors on contours at and around its two tests *)

\* contours of the first range: area 2 with 5 points, area 50, area 1.5,
\* area 50.5, and area 30 with 4 points
GateBlobs ==
    { [range_idx |-> 0, area2 |-> 4, npts |-> 5, cx |-> 20, cy |-> 20,
       size |-> Px(25), ang |-> <<3, 4>>],
      [range_idx |-> 0, area2 |-> 100, npts |-> 8, cx |-> 60, cy |-> 20,
       size |-> Px(25), ang |-> <<3, 4>>],
      [range_idx |-> 0, area2 |-> 3, npts |-> 6, cx |-> 100, cy |-> 20,
       size |-> Px(25), ang |-> <<3, 4>>],
      [range_idx |-> 0, area2 |-> 101, npts |-> 6, cx |-> 140, cy |-> 20,
       size |-> Px(25), ang |-> <<3, 4>>],
      [range_idx |-> 0, area2 |-> 60, npts |-> 4, cx |-> 180, cy |-> 20,
       size |-> Px(25), ang |-> <<3, 4>>] }

\* frames with contours only, no cv2 call throws
BlobInputs ==
    [readable : {TRUE}, w : {400}, h : {300},
     blobs : SeqsUpTo(GateBlobs, MaxDet + 2), samples : {<<>>},
     lines : {<<>>}, raises : {{}}]

InitBlobs ==
    /\ params = DefaultParams
    /\ disk = {[name |-> 1, analysis |-> FALSE]}
    /\ frame_paths = find_motion_vector_frames(disk)
    /\ pc = "loop"
    /\ results = <<>>
    /\ inputs = <<>>
    /\ overall = NotComputed
    /\ BatchIdle

ExtractBlobs == ProcessFrameFrom(BlobInputs)

NextBlobs == ExtractBlobs

SpecBlobs == InitBlobs /\ [][NextBlobs]_vars

-----------------------------------------------------------------------------
(* extract_motion_vectors_from_frame under thresholds at and above 0 *)

\* segments: of length 0 (quality 0), of length 9 (quality 0.3) and of
\* length 21 (quality 0.7)
ZeroLines ==
    { [x1 |-> 30, y1 |-> 30, x2 |-> 30, y2 |-> 30],
      [x1 |-> 60, y1 |-> 30, x2 |-> 69, y2 |-> 30],
      [x1 |-> 90, y1 |-> 30, x2 |-> 111, y2 |-> 30] }

\* frames with segments and at most MaxDet contours, no cv2 call throws
ThresholdInputs ==
    [readable : {TRUE}, w : {400}, h : {300},
     blobs : SeqsUpTo({CHOOSE b \in Blobs : b.cx = 40}, MaxDet), samples : {<<>>},
     lines : SeqsUpTo(ZeroLines, MaxDet + 1), raises : {{}}]

\* configurations without a minimum length, with thresholds of 0, of 0.001
\* and the constructor's
ThresholdParams ==
    { [DefaultParams EXCEPT !.min_vector_length = 0,
                            !.quality_threshold = qt,
                            !.confidence_threshold = ct] :
        qt \in {0, 1, 300}, ct \in {0, 400} }

InitThresholds ==
    /\ params \in ThresholdParams
    /\ disk = {[name |-> 1, analysis |-> FALSE]}
    /\ frame_paths = find_motion_vector_frames(disk)
    /\ pc = "loop"
    /\ results = <<>>
    /\ inputs = <<>>
    /\ overall = NotComputed
    /\ BatchIdle

FilterFrame == ProcessFrameFrom(ThresholdInputs)

NextThresholds == FilterFrame

SpecThresholds == InitThresholds /\ [][NextThresholds]_vars

-----------------------------------------------------------------------------
(* extract_motion_vectors_from_frame on detections at the border of the frame *)

\* frame sizes (w, h), landscape and portrait, at and above the size that is
\* resized
BorderSizes ==
    { <<600, 400>>, <<601, 400>>, <<640, 480>>, <<675, 400>>, <<1200, 800>>,
      <<1920, 1080>>, <<1999, 1000>>, <<400, 601>> }

\* a frame of size sz whose detections, one for each method in kinds, are in
\* the last column and row of the resized copy (far) or in the first ones: a
\* contour around the corner pixel, the corner point of the flow grid
\* range(step, w - step, step) x range(step, h - step, step), and a
\* vertical segment that ends in the corner pixel
BorderFrame(sz, far, kinds) ==
    LET r  == ResizedSize(sz[1], sz[2])
        bx == IF far THEN r[1] - 1 ELSE 1
        by == IF far THEN r[2] - 1 ELSE 1
        gx == IF far THEN FlowStep * ((r[1] - FlowStep - 1) \div FlowStep) ELSE FlowStep
        gy == IF far THEN FlowStep * ((r[2] - FlowStep - 1) \div FlowStep) ELSE FlowStep
    IN  [ readable |-> TRUE, w |-> sz[1], h |-> sz[2],
          blobs    |-> IF "ffmpeg" \in kinds
                       THEN << [range_idx |-> 0, area2 |-> 60, npts |-> 6,
                                cx |-> bx, cy |-> by, size |-> Px(25),
                                ang |-> <<3, 4>>] >>
                       ELSE <<>>,
          samples  |-> IF "flow" \in kinds
                       THEN << [x |-> gx, y |-> gy, fx |-> Px(16), fy |-> 0] >>
                       ELSE <<>>,
          lines    |-> IF "edge" \in kinds
                       THEN << [x1 |-> bx, y1 |-> IF far THEN by - 20 ELSE by + 20,
                                x2 |-> bx, y2 |-> by] >>
                       ELSE <<>>,
          raises   |-> {} ]

BorderInputs ==
    { BorderFrame(sz, far, kinds) :
        sz \in BorderSizes, far \in BOOLEAN, kinds \in SUBSET {"ffmpeg", "flow", "edge"} }

InitBorder ==
    /\ params = DefaultParams
    /\ disk = {[name |-> 1, analysis |-> FALSE]}
    /\ frame_paths = find_motion_vector_frames(disk)
    /\ pc = "loop"
    /\ results = <<>>
    /\ inputs = <<>>
    /\ overall = NotComputed
    /\ BatchIdle

ExtractAtBorder == ProcessFrameFrom(BorderInputs)

NextBorder == ExtractAtBorder

SpecBorder == InitBorder /\ [][NextBorder]_vars

-----------------------------------------------------------------------------
(* extract_motion_vectors_from_frame on frames whose detections tie in score *)

\* contours: quality 1.0 in the third range (score 0.7), quality 0.6 in the
\* first range (score 0.54), quality 0.3 in the second range (score 0.24)
TieBlobs ==
    { [range_idx |-> 2, area2 |-> 100, npts |-> 6, cx |-> 52, cy |-> 50,
       size |-> Px(25), ang |-> <<3, 4>>],
      [range_idx |-> 0, area2 |-> 60, npts |-> 6, cx |-> 40, cy |-> 40,
       size |-> Px(25), ang |-> <<3, 4>>],
      [range_idx |-> 1, area2 |-> 30, npts |-> 6, cx |-> 100, cy |-> 100,
       size |-> Px(30), ang |-> <<5, 0>>] }

\* flow samples at one grid point: quality 1.0 (score 0.7) and quality 0.6
\* (score 0.42)
TieSamples ==
    { [x |-> 2 * FlowStep, y |-> 2 * FlowStep, fx |-> Px(16), fy |-> 0],
      [x |-> 2 * FlowStep, y |-> 2 * FlowStep, fx |-> 240, fy |-> 0] }

\* segments: of length 27, quality 0.9 (score 0.54), and of length 21,
\* quality 0.7 (score 0.42)
TieLines ==
    { [x1 |-> 27, y1 |-> 40, x2 |-> 54, y2 |-> 40],
      [x1 |-> 30, y1 |-> 60, x2 |-> 51, y2 |-> 60] }

\* frames that are not resized, no cv2 call throws
FusionInputs ==
    [readable : {TRUE}, w : {400}, h : {300},
     blobs : SeqsUpTo(TieBlobs, MaxDet), samples : SeqsUpTo(TieSamples, MaxDet),
     lines : SeqsUpTo(TieLines, MaxDet), raises : {{}}]

\* configurations: the constructor's minimum length and half a pixel, under
\* which a flow sample of quality 0.6 is kept
FusionParams ==
    { [DefaultParams EXCEPT !.max_vectors_per_frame = cap,
                            !.min_vector_length = mn] :
        cap \in {1, 2, 50}, mn \in {Px(4), 50} }

InitFusion ==
    /\ params \in FusionParams
    /\ disk = {[name |-> 1, analysis |-> FALSE]}
    /\ frame_paths = find_motion_vector_frames(disk)
    /\ pc = "loop"
    /\ results = <<>>
    /\ inputs = <<>>
    /\ overall = NotComputed
    /\ BatchIdle

FuseFrame == ProcessFrameFrom(FusionInputs)

NextFusion == FuseFrame

SpecFusion == InitFusion /\ [][NextFusion]_vars

-----------------------------------------------------------------------------
(* BatchMotionVectorProcessor.process_video_batch *)

\* self.batch_styles, in the order of the constructor ('filter' only feeds
\* the ffmpeg command line)
batch_styles ==
    SubSeq(<< [name |-> "arrows_dense",         suffix |-> "_dense"],
              [name |-> "arrows_isolated",      suffix |-> "_isolated"],
              [name |-> "arrows_high_contrast", suffix |-> "_contrast"],
              [name |-> "arrows_glow",          suffix |-> "_glow"] >>,
           1, Min(MaxStyles, 4))

\* video paths: two of them have the same stem
Videos ==
    { [dir |-> "a", stem |-> "clip",  ext |-> "mp4"],
      [dir |-> "b", stem |-> "clip",  ext |-> "webm"],
      [dir |-> "a", stem |-> "intro", ext |-> "mp4"] }

\* Path.stem
Stem(video_path) == video_path.stem

\* the lists process_video_batch is called with: none, one video, two
\* videos, two videos of the same stem, the same video twice
VideoLists ==
    LET clip  == [dir |-> "a", stem |-> "clip",  ext |-> "mp4"]
        other == [dir |-> "b", stem |-> "clip",  ext |-> "webm"]
        intro == [dir |-> "a", stem |-> "intro", ext |-> "mp4"]
    IN  { <<>>, <<clip>>, <<clip, intro>>, <<clip, other>>, <<clip, clip>> }

\* max_workers of the call (4 is the default)
WorkerChoices == {1, 2, 4}

\* what can happen to one task in its worker: both commands succeed, the
\* ffmpeg command exits non-zero, it runs into its timeout, the frame
\* extraction command exits non-zero, or the worker raises something else
\* (OSError of mkdir, a missing ffmpeg binary, a broken pool)
FateKinds == << "ok", "ffmpeg_failed", "ffmpeg_timeout", "frames_failed", "raised" >>

\* the fates of n tasks: the same for all of them, or one after the other
Fates(n) ==
    { [f \in 1..n |-> FateKinds[k]] : k \in 1..Len(FateKinds) }
        \cup { [f \in 1..n |-> FateKinds[((f + o) % Len(FateKinds)) + 1]] : o \in {3, 4} }

\* all_tasks: one task per video and style, video by video
\* (get_key_moments returns at least one moment, and moments[:1] keeps one;
\* start and duration only feed the ffmpeg command line)
TasksFor(video_paths) ==
    LET n == Len(batch_styles)
    IN  [i \in 1..(Len(video_paths) * n) |->
            [video_path |-> video_paths[((i - 1) \div n) + 1],
             style      |-> batch_styles[((i - 1) % n) + 1]]]

\* process_single_style in its worker: the dictionary it returns, or the
\* exception it raises ('duration', a wall-clock time, is left out)
process_single_style(video_path, style, what) ==
    LET video_name  == Stem(video_path)
        output_file == <<video_name, video_name, style.suffix, "mp4">>
    IN  CASE what = "ok" ->
                [raised |-> FALSE,
                 value  |-> [video |-> video_name, style |-> style.name,
                             output |-> output_file, success |-> TRUE]]
          [] what \in {"ffmpeg_failed", "frames_failed"} ->
                [raised |-> FALSE,
                 value  |-> [video |-> video_name, style |-> style.name,
                             error |-> "CalledProcessError", success |-> FALSE]]
          [] what = "ffmpeg_timeout" ->
                [raised |-> FALSE,
                 value  |-> [video |-> video_name, style |-> style.name,
                             error |-> "TimeoutExpired", success |-> FALSE]]
          [] OTHER ->
                [raised |-> TRUE, error |-> "OSError"]

\* the loop body without the append of the except branch
HandledDroppingExceptions(rs, task, outcome) ==
    IF ~outcome.raised
    THEN Append(rs, outcome.value)
    ELSE rs

\* the body of "for future in as_completed(future_to_task)": results after
\* the future of task, finished with outcome, was handled
Handled(rs, task, outcome) ==
    IF ~outcome.raised
    THEN Append(rs, outcome.value)
    ELSE Append(rs, [video |-> Stem(task.video_path), style |-> task.style.name,
                     error |-> outcome.error, success |-> FALSE])

\* the futures that occupy a worker process
Running == {f \in DOMAIN futures : futures[f].state = "RUNNING"}

InitBatch ==
    /\ params = DefaultParams
    /\ disk = {}
    /\ frame_paths = <<>>
    /\ pc = "start"
    /\ results = <<>>
    /\ inputs = <<>>
    /\ overall = NotComputed
    /\ BatchIdle

\* process_video_batch up to the end of the submissions
SubmitAll ==
    /\ bpc = "constructed"
    /\ \E video_paths \in VideoLists, w \in WorkerChoices :
        LET tasks == TasksFor(video_paths)
        IN  /\ all_tasks' = tasks
            /\ future_to_task' = [f \in 1..Len(tasks) |-> tasks[f]]
            /\ futures' = [f \in 1..Len(tasks) |-> [state |-> "PENDING"]]
            /\ fate' \in Fates(Len(tasks))
            /\ max_workers' = w
    /\ bpc' = "as_completed"
    /\ UNCHANGED <<yielded, batch_results, completed>>
    /\ UNCHANGED frame_vars

\* a free worker process takes a pending call
RunTask(f) ==
    /\ futures[f].state = "PENDING"
    /\ Cardinality(Running) < max_workers
    /\ futures' = [futures EXCEPT ![f] = [state |-> "RUNNING"]]
    /\ UNCHANGED <<all_tasks, future_to_task, fate, max_workers, yielded,
                   batch_results, completed, bpc>>
    /\ UNCHANGED frame_vars

\* the worker finishes the call: the result or the exception is set on the
\* future
CompleteTask(f) ==
    /\ futures[f].state = "RUNNING"
    /\ LET task == future_to_task[f]
       IN  futures' = [futures EXCEPT ![f] =
               [state   |-> "FINISHED",
                outcome |-> process_single_style(task.video_path, task.style, fate[f])]]
    /\ UNCHANGED <<all_tasks, future_to_task, fate, max_workers, yielded,
                   batch_results, completed, bpc>>
    /\ UNCHANGED frame_vars

\* as_completed yields a finished future and the loop body handles it
HandleFuture(f) ==
    /\ bpc = "as_completed"
    /\ futures[f].state = "FINISHED"
    /\ f \notin yielded
    /\ yielded' = yielded \cup {f}
    /\ batch_results' = Handled(batch_results, future_to_task[f], futures[f].outcome)
    /\ completed' = completed + 1
    /\ UNCHANGED <<all_tasks, future_to_task, futures, fate, max_workers, bpc>>
    /\ UNCHANGED frame_vars

\* as_completed is exhausted, the executor is shut down, results returned
ReturnResults ==
    /\ bpc = "as_completed"
    /\ yielded = DOMAIN future_to_task
    /\ bpc' = "returned"
    /\ UNCHANGED <<all_tasks, future_to_task, futures, fate, max_workers, yielded,
                   batch_results, completed>>
    /\ UNCHANGED frame_vars

NextBatch ==
    \/ SubmitAll
    \/ \E f \in DOMAIN futures : RunTask(f)
    \/ \E f \in DOMAIN futures : CompleteTask(f)
    \/ \E f \in DOMAIN futures : HandleFuture(f)
    \/ ReturnResults

SpecBatch == InitBatch /\ [][NextBatch]_vars

-----------------------------------------------------------------------------
(* Properties *)

\* the elements of a sequence
Range(s) == {s[k] : k \in 1..Len(s)}

\* |direction|^2 of a vector
Norm2(v) == v.direction[1] * v.direction[1] + v.direction[2] * v.direction[2]

\* C1: every vector of every frame result, also of a frame processed on a
\* resized copy, has min_vector_length <= |direction| <= max_vector_length
\* (stated here for the configuration the constructor sets).
C1_LengthWithinBounds ==
    params = DefaultParams =>
        \A i \in 1..Len(results) : \A v \in Range(results[i].vectors) :
            /\ params.min_vector_length * params.min_vector_length <= Norm2(v)
            /\ Norm2(v) <= params.max_vector_length * params.max_vector_length

\* C2 as stated: any two distinct vectors of one result have centers strictly
\* farther apart than the dedup radius.
C2_StrictlyFartherThanRadius ==
    \A i \in 1..Len(results) :
        LET vs == results[i].vectors
        IN  \A j, k \in 1..Len(vs) :
                j # k => Dist2(vs[j].center, vs[k].center) > DedupRadius * DedupRadius

\* C2 as amended: any two distinct vectors of one result have centers at least
\* the dedup radius apart (a pair at exactly the radius may both be retained).
C2_AtLeastRadiusApart ==
    \A i \in 1..Len(results) :
        LET vs == results[i].vectors
        IN  \A j, k \in 1..Len(vs) :
                j # k => Dist2(vs[j].center, vs[k].center) >= DedupRadius * DedupRadius

\* a result that retains a pair at exactly the radius, from a frame in which
\* another detection was discarded as a duplicate
C2_Witness ==
    \E i \in 1..Len(results) :
        LET vs == results[i].vectors
        IN  /\ \E j, k \in 1..Len(vs) :
                Dist2(vs[j].center, vs[k].center) = DedupRadius * DedupRadius
            /\ Len(vs) < Len(FilterVectors(AllVectors(inputs[i].frame, params), params))
            /\ Len(vs) < params.max_vectors_per_frame

\* C3: the number of vectors of a frame result is at most
\* max_vectors_per_frame, for every configured value including 0.
C3_AtMostCap ==
    \A i \in 1..Len(results) :
        Len(results[i].vectors) <= params.max_vectors_per_frame

\* the configurations that differ from p by lower (or equal) thresholds
LowerThresholds(p) ==
    { [p EXCEPT !.quality_threshold = qt, !.confidence_threshold = ct] :
        qt \in {q \in {200, 300} : q <= p.quality_threshold},
        ct \in {c \in {400, 700} : c <= p.confidence_threshold} }

\* C4 as stated: every vector accepted under the thresholds of params is
\* still accepted under any lower thresholds, for the same detections (stated
\* here for the constructor's own cap of 50 vectors per frame, which three
\* detections never reach).
C4_AcceptedSetGrows ==
    params.max_vectors_per_frame = DefaultParams.max_vectors_per_frame =>
        \A i \in 1..Len(results) : ~HasError(results[i]) =>
            \A low \in LowerThresholds(params) :
                Range(results[i].vectors)
                    \subseteq Range(Fuse(AllVectors(inputs[i].frame, params), low))

\* C4 as amended: under lower thresholds every vector accepted before still
\* passes the filter, and it is still accepted unless it is closer than the
\* dedup radius to an accepted vector of at least its score, or the cap has
\* been reached.
C4_DisplacedOnlyByBetter ==
    \A i \in 1..Len(results) : ~HasError(results[i]) =>
        \A low \in LowerThresholds(params) :
            LET all == AllVectors(inputs[i].frame, params)
                acc == Fuse(all, low)
            IN  \A v \in Range(results[i].vectors) :
                    /\ v \in Range(FilterVectors(all, low))
                    /\ \/ v \in Range(acc)
                       \/ \E u \in Range(acc) : TooClose(u, v) /\ Score(u) >= Score(v)
                       \/ Len(acc) >= low.max_vectors_per_frame

\* an accepted vector that a detection admitted by a lower threshold displaces
\* although the cap is not reached
C4_Witness ==
    \E i \in 1..Len(results) : ~HasError(results[i]) /\
        \E low \in LowerThresholds(params) :
            LET acc == Fuse(AllVectors(inputs[i].frame, params), low)
            IN  /\ Len(acc) < low.max_vectors_per_frame
                /\ \E v \in Range(results[i].vectors) : v \notin Range(acc)

\* C6: a frame that cannot be loaded yields a result with no vectors and the
\* error set, that result is recorded at the frame's position, the driver
\* stays in its loop, and when it returns every frame has been processed.
C6_LoadErrorIsolated ==
    \A i \in 1..Len(inputs) : ~inputs[i].frame.readable =>
        /\ i <= Len(results)
        /\ results[i].vectors = <<>>
        /\ HasError(results[i]) /\ results[i].error # ""
        /\ i = Len(inputs) => pc \in {"loop", "done"}
        /\ pc = "done" => Len(inputs) = Len(frame_paths)

\* the driver has returned after an unreadable first frame and a second frame
\* that gave vectors
C6_Witness ==
    /\ pc = "done"
    /\ Len(results) >= 2
    /\ ~inputs[1].frame.readable
    /\ HasError(results[1])
    /\ ~HasError(results[2]) /\ results[2].vectors # <<>>

\* the frame with the detections of the extractors in `failed` left out
WithoutExtractors(fr, failed) ==
    [fr EXCEPT !.blobs   = IF "ffmpeg" \in failed THEN <<>> ELSE @,
               !.samples = IF "flow" \in failed THEN <<>> ELSE @,
               !.lines   = IF "edge" \in failed THEN <<>> ELSE @,
               !.raises  = {}]

\* C7: when one extractor throws on a readable frame, the frame's result is
\* the fusion of the other two extractors' detections, and the batch is not
\* aborted.
C7_ExtractorFailureIsolated ==
    /\ pc # "raised"
    /\ \A i \in 1..Len(inputs) :
          (inputs[i].frame.readable /\ inputs[i].frame.raises # {}) =>
              /\ i <= Len(results)
              /\ results[i] = FrameResult(frame_paths[i],
                     WithoutExtractors(inputs[i].frame, inputs[i].frame.raises), params)

\* C8: when process_all_frames returns, there is exactly one result per frame
\* of the sorted, filtered frame list, and the i-th result is the result of
\* the i-th frame, error results included.
C8_ResultsInInputOrder ==
    /\ \A i, j \in 1..Len(frame_paths) :
          i < j => PathKey(frame_paths[i]) < PathKey(frame_paths[j])
    /\ pc = "done" =>
          /\ Range(frame_paths) = {path \in disk : ~path.analysis}
          /\ Len(results) = Len(frame_paths)
          /\ \A i \in 1..Len(results) :
                /\ inputs[i].frame_path = frame_paths[i]
                /\ results[i] = extract_motion_vectors_from_frame(
                                    frame_paths[i], inputs[i].frame, params)

\* the driver has returned two different results, the first an error result,
\* for a directory that also holds an analysis file
C8_Witness ==
    /\ pc = "done"
    /\ Len(results) = 2
    /\ HasError(results[1]) /\ ~HasError(results[2])
    /\ \E path \in disk : path.analysis

\* C9: an invalid configuration (min_vector_length > max_vector_length) is
\* rejected at construction: no frame is loaded and run through the
\* extractors under it.
C9_InvalidConfigRejected ==
    params.min_vector_length > params.max_vector_length =>
        \A i \in 1..Len(inputs) : ~inputs[i].frame.readable

\* the case of C10 with the centers at most `d2` apart (squared): the frame
\* gives exactly two detections, both pass the filters, their scores differ
Collision(i, d2) ==
    LET all == AllVectors(inputs[i].frame, params)
    IN  /\ ~HasError(results[i])
        /\ Len(all) = 2
        /\ PassesFilter(all[1], params) /\ PassesFilter(all[2], params)
        /\ Score(all[1]) # Score(all[2])
        /\ Dist2(all[1].center, all[2].center) <= d2

\* the higher-scored of the two detections
Winner(i) ==
    LET all == AllVectors(inputs[i].frame, params)
    IN  IF Score(all[1]) > Score(all[2]) THEN all[1] ELSE all[2]

\* C10 as stated: of two filter-passing detections with different scores and
\* centers within the dedup radius (distance <= 15), exactly the higher-scored
\* one is in the result.
C10_CollisionWithinRadius ==
    \A i \in 1..Len(results) :
        Collision(i, DedupRadius * DedupRadius) => results[i].vectors = <<Winner(i)>>

\* C10 as amended: the same for centers closer than the dedup radius
\* (distance < 15).
C10_CollisionCloserThanRadius ==
    \A i \in 1..Len(results) :
        Collision(i, DedupRadius * DedupRadius - 1) => results[i].vectors = <<Winner(i)>>

\* a collision in which the lower-scored detection comes first in extraction
\* order, under a cap that two vectors do not reach
C10_Witness ==
    \E i \in 1..Len(results) :
        /\ Collision(i, DedupRadius * DedupRadius - 1)
        /\ Winner(i) = AllVectors(inputs[i].frame, params)[2]
        /\ params.max_vectors_per_frame > 2

\* the statistics of an empty list
ZeroStats == [min |-> 0, max |-> 0, avg |-> 0]

\* C11: when the three extractors return nothing for a frame that was loaded,
\* the result has no vectors, an empty method distribution, length and
\* quality statistics that are all 0, and no error.
C11_EmptyFrameAllZero ==
    \A i \in 1..Len(results) :
        LET fr == inputs[i].frame
        IN  (fr.readable /\ ExtractedVectors(fr, params) = <<>>)
            => /\ ~HasError(results[i])
               /\ results[i].vectors = <<>>
               /\ results[i].total_vectors = 0
               /\ DOMAIN results[i].method_distribution = {}
               /\ results[i].length_stats = ZeroStats
               /\ results[i].quality_stats = ZeroStats

\* a loaded frame with a contour, a flow sample and a segment, each dropped by
\* its extractor, has its result recorded
C11_Witness ==
    \E i \in 1..Len(results) :
        LET fr == inputs[i].frame
        IN  /\ fr.readable
            /\ fr.blobs # <<>> /\ fr.samples # <<>> /\ fr.lines # <<>>
            /\ ExtractedVectors(fr, params) = <<>>
            /\ results[i].vectors = <<>>

\* the keys of the diagnostic summary
SummaryKeys == {"method_distribution", "length_stats", "quality_stats"}

Priority(method) ==
    CASE method = "ffmpeg" -> 1
      [] method = "flow"   -> 2
      [] method = "edge"   -> 3

\* two filter-passing detections of frame i with the same score, u of the
\* method that comes first, with their centers closer than the radius
TiedCollision(i, u, v) ==
    LET passing == Range(FilterVectors(AllVectors(inputs[i].frame, params), params))
    IN  /\ u \in passing /\ v \in passing
        /\ Score(u) = Score(v)
        /\ Priority(u.method) < Priority(v.method)
        /\ TooClose(u, v)

\* C13: accepted vectors of equal score stand in the order ffmpeg, flow,
\* edge; and of two filter-passing detections of equal score and different
\* methods closer than the dedup radius, the one of the method that comes
\* first in that order is retained and the other is not, whenever the cap was
\* not reached and no third accepted vector lies within the radius of the
\* first.
C13_TiesByMethodPriority ==
    \A i \in 1..Len(results) :
        LET acc == results[i].vectors
        IN  /\ \A k \in 1..(Len(acc) - 1) :
                   Score(acc[k]) = Score(acc[k + 1])
                   => Priority(acc[k].method) <= Priority(acc[k + 1].method)
            /\ \A u, v \in Range(AllVectors(inputs[i].frame, params)) :
                   ( /\ TiedCollision(i, u, v)
                     /\ Len(acc) < params.max_vectors_per_frame
                     /\ \A w \in Range(acc) \ {u, v} : ~TooClose(w, u) )
                   => u \in Range(acc) /\ v \notin Range(acc)

\* a flow detection and an edge detection of equal score collide in a frame
\* whose accepted list is below the cap: the flow detection is the one kept
C13_Witness ==
    \E i \in 1..Len(results) :
        \E u, v \in Range(AllVectors(inputs[i].frame, params)) :
            /\ TiedCollision(i, u, v)
            /\ u.method = "flow" /\ v.method = "edge"
            /\ Len(results[i].vectors) < params.max_vectors_per_frame
            /\ u \in Range(results[i].vectors)
            /\ v \notin Range(results[i].vectors)

\* C14: every accepted vector has quality >= quality_threshold and
\* confidence >= confidence_threshold, and the filter excludes nothing else:
\* a detection at or above both thresholds (exactly at a threshold too) that
\* no other accepted vector is near is accepted when the cap was not reached.
C14_FilterAtThreshold ==
    \A i \in 1..Len(results) :
        ~HasError(results[i]) =>
            LET acc == Range(results[i].vectors)
            IN  /\ \A v \in acc :
                       /\ v.quality >= params.quality_threshold
                       /\ v.confidence >= params.confidence_threshold
                /\ \A v \in Range(AllVectors(inputs[i].frame, params)) :
                       ( /\ v.quality >= params.quality_threshold
                         /\ v.confidence >= params.confidence_threshold
                         /\ Cardinality(acc) < params.max_vectors_per_frame
                         /\ \A w \in acc \ {v} : ~TooClose(w, v) )
                       => v \in acc

\* a vector whose quality is the quality threshold and a vector whose
\* confidence is the confidence threshold are accepted, and a detection
\* below the confidence threshold is not
C14_Witness ==
    \E i \in 1..Len(results) :
        /\ ~HasError(results[i])
        /\ \E v \in Range(results[i].vectors) :
               v.quality = params.quality_threshold
        /\ \E v \in Range(results[i].vectors) :
               v.confidence = params.confidence_threshold
        /\ \E v \in Range(AllVectors(inputs[i].frame, params)) :
               /\ v.confidence < params.confidence_threshold
               /\ v \notin Range(results[i].vectors)

\* the detections of frame i that pass the filter and are not accepted
NotAccepted(i) ==
    { v \in Range(AllVectors(inputs[i].frame, params)) :
        PassesFilter(v, params) /\ v \notin Range(results[i].vectors) }

\* an accepted vector of frame i closer to v than the radius, of a score that
\* is at least v's
SuppressedByBetter(i, v) ==
    \E u \in Range(results[i].vectors) : TooClose(u, v) /\ Score(u) >= Score(v)

\* C15: a detection that passes the filter and is not accepted lies within
\* the dedup radius of an accepted vector whose score is at least its own,
\* or max_vectors_per_frame vectors were accepted and it stands after the
\* last of them in the order of the scores.
C15_GreedyPreference ==
    \A i \in 1..Len(results) :
        ~HasError(results[i]) =>
            LET acc == results[i].vectors
            IN  \A v \in NotAccepted(i) :
                    \/ SuppressedByBetter(i, v)
                    \/ /\ Len(acc) >= params.max_vectors_per_frame
                       /\ Score(v) <= Score(acc[Len(acc)])

\* below the cap, a filter-passing detection is discarded next to an accepted
\* vector of a strictly higher score
C15_Witness ==
    \E i \in 1..Len(results) :
        /\ ~HasError(results[i])
        /\ Len(results[i].vectors) < params.max_vectors_per_frame
        /\ \E v \in NotAccepted(i) :
               \E u \in Range(results[i].vectors) :
                   TooClose(u, v) /\ Score(u) > Score(v)

\* C16: the accepted vectors of every frame result stand in non-increasing
\* score: each entry's quality x confidence is at least the next entry's.
C16_NonIncreasingScore ==
    \A i \in 1..Len(results) :
        ~HasError(results[i]) =>
            LET acc == results[i].vectors
            IN  \A k \in 1..(Len(acc) - 1) : Score(acc[k]) >= Score(acc[k + 1])

\* an accepted list of strictly decreasing score in which an FFmpeg vector,
\* the first to be extracted, stands after a vector of another method
C16_Witness ==
    \E i \in 1..Len(results) :
        /\ ~HasError(results[i])
        /\ \E k \in 1..(Len(results[i].vectors) - 1) :
               /\ Score(results[i].vectors[k]) > Score(results[i].vectors[k + 1])
               /\ results[i].vectors[k].method # "ffmpeg"
               /\ results[i].vectors[k + 1].method = "ffmpeg"

\* the candidates of a frame that reach the length constraints, each with its
\* method, its center and its method-scaled (dx, dy)
Candidates(fr, p) ==
    { [method |-> "ffmpeg", center |-> <<b.cx, b.cy>>, scaled |-> FfmpegArrow(b, p)] :
        b \in {x \in Range(fr.blobs) : AreaInBand(x.area2) /\ EnoughPoints(x.npts)} }
    \cup
    { [method |-> "flow", center |-> <<s.x, s.y>>, scaled |-> ScaledFlow(s, p)] :
        s \in {x \in Range(fr.samples) : SignificantMotion(Length(x.fx, x.fy))} }
    \cup
    { [method |-> "edge", center |-> EdgeCenter(l), scaled |-> ScaledEdge(l, p)] :
        l \in Range(fr.lines) }

\* the detections among extracted that come from candidate c
DetectionsOf(c, extracted) ==
    { v \in extracted : v.method = c.method /\ v.center = c.center }

Sign(x) == IF x > 0 THEN 1 ELSE IF x < 0 THEN -1 ELSE 0

\* direction d has the signs and the ratio dx : dy of the scaled vector s
SameHeading(d, s) ==
    /\ Sign(d[1]) = Sign(s[1]) /\ Sign(d[2]) = Sign(s[2])
    /\ d[1] * s[2] = d[2] * s[1]

\* C17: every detection an extractor returns has min_vector_length <=
\* magnitude <= max_vector_length; a candidate longer than max_vector_length
\* is returned with magnitude max_vector_length and a direction of that
\* length with the signs and the ratio of (dx, dy) unchanged; a candidate
\* within the bounds is returned unchanged; a candidate whose length, after
\* the rescaling if any, is below min_vector_length is not returned.
C17_ExtractorNormalization ==
    \A i \in 1..Len(inputs) :
        LET fr == inputs[i].frame
            mx == params.max_vector_length
            mn == params.min_vector_length
            extracted == Range(ExtractedVectors(fr, params))
        IN  fr.readable =>
            /\ \A v \in extracted : mn <= v.magnitude /\ v.magnitude <= mx
            /\ \A c \in Candidates(fr, params) :
                   LET len == Length(c.scaled[1], c.scaled[2])
                       out == DetectionsOf(c, extracted)
                   IN  /\ Min(len, mx) < mn => out = {}
                       /\ (len > mx /\ mx >= mn) =>
                              /\ out # {}
                              /\ \A v \in out :
                                     /\ v.magnitude = mx
                                     /\ Length(v.direction[1], v.direction[2]) = mx
                                     /\ SameHeading(v.direction, c.scaled)
                       /\ (mn <= len /\ len <= mx) =>
                              /\ out # {}
                              /\ \A v \in out :
                                     v.magnitude = len /\ v.direction = c.scaled

\* a frame with a flow sample of a negative dx that is rescaled to
\* max_vector_length, a segment that is returned unchanged and a contour
\* that is dropped for its length
C17_Witness ==
    \E i \in 1..Len(inputs) :
        LET fr == inputs[i].frame
            mx == params.max_vector_length
            mn == params.min_vector_length
            extracted == Range(ExtractedVectors(fr, params))
        IN  /\ fr.readable
            /\ \E c \in Candidates(fr, params) :
                   /\ c.method = "flow" /\ c.scaled[1] < 0
                   /\ Length(c.scaled[1], c.scaled[2]) > mx
                   /\ \E v \in DetectionsOf(c, extracted) : v.magnitude = mx
            /\ \E c \in Candidates(fr, params) :
                   /\ c.method = "edge"
                   /\ Length(c.scaled[1], c.scaled[2]) < mx
                   /\ DetectionsOf(c, extracted) # {}
            /\ \E c \in Candidates(fr, params) :
                   /\ c.method = "ffmpeg"
                   /\ Length(c.scaled[1], c.scaled[2]) < mn
                   /\ DetectionsOf(c, extracted) = {}

Abs(x) == IF x < 0 THEN -x ELSE x

\* y is x * m / 600 cut to a whole number of pixels
IsScaledBack(y, x, m) ==
    DownscaleTarget * y <= x * m /\ x * m < DownscaleTarget * (y + 1)

\* y is x * (m / 600) * 0.8 to within a hundredth of a pixel
IsScaledBackDamped(y, x, m) ==
    Abs(y * DownscaleTarget * 10 - x * m * 8) < DownscaleTarget * 10

\* v is what the extractors' detection r becomes for a frame of size w x h
MappedBack(v, r, w, h) ==
    LET m == Max(h, w)
    IN  IF m > DownscaleTarget
        THEN /\ IsScaledBack(v.center[1], r.center[1], m)
             /\ IsScaledBack(v.center[2], r.center[2], m)
             /\ IsScaledBackDamped(v.direction[1], r.direction[1], m)
             /\ IsScaledBackDamped(v.direction[2], r.direction[2], m)
             /\ IsScaledBackDamped(v.magnitude, r.magnitude, m)
             /\ [v EXCEPT !.center = 0, !.direction = 0, !.magnitude = 0]
                  = [r EXCEPT !.center = 0, !.direction = 0, !.magnitude = 0]
        ELSE v = r

\* C18: the extractors run on a copy whose longer side is 600 exactly when
\* max(h, w) > 600; every accepted vector of such a frame is a detection of
\* the extractors with its center multiplied by scale_back = max(h, w) / 600
\* (cut to whole pixels) and its direction and magnitude multiplied by
\* scale_back x 0.8; when max(h, w) <= 600 the frame is processed as it is
\* and every accepted vector is a detection of the extractors, unchanged.
C18_DownscaleMapping ==
    \A i \in 1..Len(results) :
        LET fr == inputs[i].frame
            resized == ResizedSize(fr.w, fr.h)
        IN  ~HasError(results[i]) =>
            /\ IF Max(fr.h, fr.w) > DownscaleTarget
               THEN Max(resized[1], resized[2]) = DownscaleTarget
               ELSE resized = <<fr.w, fr.h>>
            /\ \A v \in Range(results[i].vectors) :
                   \E r \in Range(ExtractedVectors(fr, params)) :
                       MappedBack(v, r, fr.w, fr.h)

\* a frame 675 wide has an accepted vector whose center moved from (50, 50)
\* to (56, 56) and whose magnitude went from 4.00 to 3.60 pixels
C18_Witness ==
    \E i \in 1..Len(results) :
        /\ ~HasError(results[i])
        /\ inputs[i].frame.w = 675
        /\ \E v \in Range(results[i].vectors) :
               \E r \in Range(ExtractedVectors(inputs[i].frame, params)) :
                   /\ MappedBack(v, r, inputs[i].frame.w, inputs[i].frame.h)
                   /\ r.center = <<50, 50>> /\ v.center = <<56, 56>>
                   /\ r.magnitude = Px(4) /\ v.magnitude = 360

\* the stored magnitude of v is the length of its stored direction
MagnitudeOfDirection(v) ==
    v.magnitude >= 0 /\ v.magnitude * v.magnitude = Norm2(v)

\* C19: the stored magnitude is sqrt(dx^2 + dy^2) of the stored direction for
\* every detection the extractors return (after the method scaling and the
\* rescaling to max_vector_length), for every detection after the scaling
\* back to the original size, and for every accepted vector.
C19_MagnitudeConsistent ==
    \A i \in 1..Len(results) :
        LET fr == inputs[i].frame
        IN  ~HasError(results[i]) =>
            /\ \A v \in Range(ExtractedVectors(fr, params)) : MagnitudeOfDirection(v)
            /\ \A v \in Range(AllVectors(fr, params)) : MagnitudeOfDirection(v)
            /\ \A v \in Range(results[i].vectors) : MagnitudeOfDirection(v)

\* an accepted vector of a resized frame that its extractor had rescaled to
\* max_vector_length: its direction and its magnitude changed together twice
C19_Witness ==
    \E i \in 1..Len(results) :
        /\ ~HasError(results[i])
        /\ Downscaled(inputs[i].frame.w, inputs[i].frame.h)
        /\ \E v \in Range(results[i].vectors) :
               \E r \in Range(ExtractedVectors(inputs[i].frame, params)) :
                   /\ r.method = v.method /\ r.evidence = v.evidence
                   /\ r.magnitude = params.max_vector_length
                   /\ v.magnitude # r.magnitude
                   /\ v.direction[1] # 0 /\ v.direction[2] # 0
                   /\ MagnitudeOfDirection(v)

\* range a is at least as wide as range b in hue, saturation and value
Contains(a, b) ==
    \A k \in 1..3 : a.lower[k] <= b.lower[k] /\ b.upper[k] <= a.upper[k]

\* the FFmpeg vectors of frame i's result come with the confidence of the
\* range of their contour, 0.9 - 0.1 x range_idx
ConfidenceByRangeIndex(i) ==
    \A v \in Range(results[i].vectors) :
        v.method = "ffmpeg" =>
            \E b \in Range(inputs[i].frame.blobs) :
                /\ v.center = <<b.cx, b.cy>>
                /\ v.confidence = 900 - 100 * b.range_idx

\* C20 as stated: the ranges go from the most to the least specific, each
\* range after the first at least as wide as the one before it, and the
\* confidence falls with the index.
C20_MostToLeastSpecific ==
    /\ \A n \in 1..(Len(green_ranges) - 1) :
           Contains(green_ranges[n + 1], green_ranges[n])
    /\ \A i \in 1..Len(results) : ConfidenceByRangeIndex(i)

\* C20: the range at index 0 is the primary one, the range at index 1 is
\* wider and contains it, the range at index 2 is the most saturated and the
\* narrowest and lies inside it; the confidence is 0.9 - 0.1 x index, so the
\* primary range has the highest and the narrowest range the lowest.
C20_PrimaryWiderSaturated ==
    /\ Len(green_ranges) = 3
    /\ Contains(green_ranges[2], green_ranges[1])
    /\ Contains(green_ranges[1], green_ranges[3])
    /\ green_ranges[2] # green_ranges[1] /\ green_ranges[1] # green_ranges[3]
    /\ \A i \in 1..Len(results) : ConfidenceByRangeIndex(i)

\* an accepted FFmpeg vector of the contour of the narrowest range, index 2,
\* with confidence 0.7
C20_Witness ==
    \E i \in 1..Len(results) :
        /\ ConfidenceByRangeIndex(i)
        /\ \E v \in Range(results[i].vectors) :
               /\ v.method = "ffmpeg" /\ v.confidence = 700
               /\ \E b \in Range(inputs[i].frame.blobs) :
                      b.range_idx = 2 /\ v.center = <<b.cx, b.cy>>

\* C21: the confidence of a detection is fixed by its method and, for the
\* FFmpeg extractor, by the index of the range of its contour: 0.9 - 0.1 x
\* index for an FFmpeg detection, 0.7 for a flow detection, 0.6 for an edge
\* detection, which is strictly below the confidence of every FFmpeg and
\* flow detection.
C21_ConfidenceByMethod ==
    \A i \in 1..Len(inputs) :
        LET fr == inputs[i].frame
            extracted == Range(ExtractedVectors(fr, params))
        IN  fr.readable =>
            \A v \in extracted :
                /\ v.method = "ffmpeg" =>
                       \E b \in Range(fr.blobs) :
                           /\ v.center = <<b.cx, b.cy>>
                           /\ v.confidence = 900 - 100 * b.range_idx
                /\ v.method = "flow" => v.confidence = 700
                /\ v.method = "edge" =>
                       /\ v.confidence = 600
                       /\ \A u \in extracted :
                              u.method # "edge" => v.confidence < u.confidence

\* a frame with an edge detection, a flow detection and an FFmpeg detection
\* of the last range, whose confidence 0.7 is the lowest an FFmpeg detection
\* has
C21_Witness ==
    \E i \in 1..Len(inputs) :
        LET extracted == Range(ExtractedVectors(inputs[i].frame, params))
        IN  /\ \E v \in extracted : v.method = "edge" /\ v.confidence = 600
            /\ \E v \in extracted : v.method = "flow" /\ v.confidence = 700
            /\ \E v \in extracted : v.method = "ffmpeg" /\ v.confidence = 700
            /\ \E b \in Range(inputs[i].frame.blobs) : b.range_idx = 2

\* q is min(x / full, 1) in thousandths, cut to a whole number of them
IsCappedRatio(q, x, full) ==
    IF x >= full THEN q = 1000
    ELSE q * full <= x * 1000 /\ x * 1000 < (q + 1) * full

\* C22: every detection an extractor returns has quality in [0, 1] and
\* confidence in [0, 1]; its quality is min(area / 50, 1) for an FFmpeg
\* detection, min(flow magnitude / 4, 1) for a flow detection and
\* min(segment length / 30, 1) for an edge detection.
C22_QualityConfidenceInUnitRange ==
    \A i \in 1..Len(inputs) :
        LET fr == inputs[i].frame
        IN  fr.readable =>
            \A v \in Range(ExtractedVectors(fr, params)) :
                /\ 0 <= v.quality /\ v.quality <= 1000
                /\ 0 <= v.confidence /\ v.confidence <= 1000
                /\ v.method = "ffmpeg" => IsCappedRatio(v.quality, v.evidence, 100)
                /\ v.method = "flow" => IsCappedRatio(v.quality, v.evidence, Px(4))
                /\ v.method = "edge" => IsCappedRatio(v.quality, v.evidence, Px(30))

\* a flow detection of magnitude 80 with quality 1.0 next to an FFmpeg
\* detection of area 15 with quality 0.3
C22_Witness ==
    \E i \in 1..Len(inputs) :
        LET extracted == Range(ExtractedVectors(inputs[i].frame, params))
        IN  /\ \E v \in extracted :
                   v.method = "flow" /\ v.evidence = Px(80) /\ v.quality = 1000
            /\ \E v \in extracted :
                   v.method = "ffmpeg" /\ v.evidence = 30 /\ v.quality = 300

\* contour b passes the two tests of the FFmpeg extractor
PassesGate(b) == 4 <= b.area2 /\ b.area2 <= 100 /\ b.npts >= 5

\* C23: the FFmpeg extractor returns a detection only for a contour whose
\* area is in [2, 50] and that has at least 5 points; every other contour is
\* skipped without an error, and the contours around it in the list still
\* give their detections.
C23_ContourGate ==
    \A i \in 1..Len(inputs) :
        LET fr == inputs[i].frame
            detected == { v.center : v \in
                            { x \in Range(ExtractedVectors(fr, params)) :
                                x.method = "ffmpeg" } }
        IN  fr.readable =>
            /\ pc # "raised"
            /\ Len(results) >= i /\ ~HasError(results[i])
            /\ \A c \in detected :
                   \E b \in Range(fr.blobs) : c = <<b.cx, b.cy>> /\ PassesGate(b)
            /\ \A b \in Range(fr.blobs) :
                   ( /\ PassesGate(b)
                     /\ Scale(b.size, params.ffmpeg_scale, 100) >= params.min_vector_length )
                   => <<b.cx, b.cy>> \in detected

\* a contour of 4 points, then a contour of area 50.5, then a contour of
\* area 2 with 5 points: only the last gives a detection
C23_Witness ==
    \E i \in 1..Len(results) :
        LET fr == inputs[i].frame
        IN  /\ Len(fr.blobs) = 3
            /\ fr.blobs[1].npts = 4
            /\ fr.blobs[2].area2 = 101
            /\ fr.blobs[3].area2 = 4 /\ fr.blobs[3].npts = 5
            /\ Len(ExtractedVectors(fr, params)) = 1
            /\ ExtractedVectors(fr, params)[1].center = <<fr.blobs[3].cx, fr.blobs[3].cy>>
            /\ ~HasError(results[i])

\* the count of method m in a method distribution, 0 without the key
CountOf(method_distribution, m) ==
    IF m \in DOMAIN method_distribution THEN method_distribution[m] ELSE 0

\* stats is {min, max, avg} of the values xs: min and max are values of xs
\* that bound all of them, and avg lies between the two
SummarisesValues(stats, xs) ==
    /\ stats.min \in xs /\ stats.max \in xs
    /\ \A x \in xs : stats.min <= x /\ x <= stats.max
    /\ stats.min <= stats.avg /\ stats.avg <= stats.max

C25_NoZeroScoreAccepted ==
    \A i \in 1..Len(results) :
        ~HasError(results[i]) =>
            \A v \in Range(results[i].vectors) :
                \/ Score(v) > 0
                \/ params.quality_threshold = 0
                \/ params.confidence_threshold = 0

\* under thresholds above 0, a frame with a detection of score 0 and an
\* accepted vector: the detection of score 0 is not accepted
C25_Witness ==
    \E i \in 1..Len(results) :
        /\ params.quality_threshold > 0 /\ params.confidence_threshold > 0
        /\ \E v \in Range(AllVectors(inputs[i].frame, params)) :
               Score(v) = 0 /\ v \notin Range(results[i].vectors)
        /\ results[i].vectors # <<>>

\* C26: an accepted vector of a result that is recorded is a detection as
\* it stood after the scaling back: the filter, the sort, the duplicate
\* removal and the statistics change none of its fields; and no later step
\* of process_all_frames, the next frames and the overall statistics
\* included, changes a result that was recorded.
C26_AcceptedNeverMutated ==
    [][ /\ \A i \in 1..Len(results) :
              Len(results') >= i /\ results'[i] = results[i]
        /\ \A i \in (Len(results) + 1)..Len(results') :
              ~HasError(results'[i]) =>
                  \A v \in Range(results'[i].vectors) :
                      v \in Range(AllVectors(inputs'[i].frame, params')) ]_vars

\* the driver has returned, the overall statistics were computed after two
\* frames, and the first result holds vectors of a resized frame
C26_Witness ==
    /\ pc = "done"
    /\ overall.computed
    /\ Len(results) >= 2
    /\ ~HasError(results[1])
    /\ Downscaled(inputs[1].frame.w, inputs[1].frame.h)
    /\ Len(results[1].vectors) >= 2
    /\ results[1].vectors = Fuse(AllVectors(inputs[1].frame, params), params)

\* C27: with max_vectors_per_frame >= 1, the filter, the sort by score, the
\* duplicate removal and the cap applied to the accepted vectors of a frame
\* return the accepted vectors, the same elements in the same order.
C27_FusionIdempotent ==
    \A i \in 1..Len(results) :
        (~HasError(results[i]) /\ params.max_vectors_per_frame >= 1)
        => Fuse(results[i].vectors, params) = results[i].vectors

\* a frame of three detections of which the fusion kept two, under a cap
\* that it reached, and keeps the same two when it is applied to them
C27_Witness ==
    \E i \in 1..Len(results) :
        /\ ~HasError(results[i])
        /\ params.max_vectors_per_frame = 2
        /\ Len(AllVectors(inputs[i].frame, params)) = 3
        /\ Len(results[i].vectors) = 2
        /\ Fuse(results[i].vectors, params) = results[i].vectors

\* what frame result r adds to the corpus count of method m: nothing for an
\* error result
Contribution(r, m) ==
    IF HasError(r) THEN 0 ELSE CountOf(r.method_distribution, m)

\* the sum over the results of their contributions to method m
CorpusCount(m) ==
    SeqSum([i \in 1..Len(results) |-> Contribution(results[i], m)])

\* C28: when process_all_frames has computed its overall statistics, the
\* total of vectors is the sum of total_vectors over the results without an
\* error, the count of each method is the sum of the per-frame counts of
\* that method over the same results, the counts of the methods sum to the
\* total, and the results with an error add nothing.
C28_CorpusAggregatesConsistent ==
    (pc = "done" /\ overall.computed) =>
        /\ overall.processed_frames =
              Cardinality({i \in 1..Len(results) : ~HasError(results[i])})
        /\ overall.total_vectors =
              SeqSum([i \in 1..Len(results) |->
                        IF HasError(results[i]) THEN 0 ELSE results[i].total_vectors])
        /\ DOMAIN overall.all_methods \subseteq {"ffmpeg", "flow", "edge"}
        /\ \A m \in {"ffmpeg", "flow", "edge"} :
              CountOf(overall.all_methods, m) = CorpusCount(m)
        /\ CountOf(overall.all_methods, "ffmpeg") + CountOf(overall.all_methods, "flow")
             + CountOf(overall.all_methods, "edge") = overall.total_vectors
        /\ Len(overall.all_lengths) = overall.total_vectors

\* the statistics over a result with an error, a result with two vectors
\* and no third frame with vectors: the total is not the number of frames
C28_Witness ==
    /\ pc = "done"
    /\ overall.computed
    /\ \E i \in 1..Len(results) : HasError(results[i])
    /\ \E i \in 1..Len(results) :
           ~HasError(results[i]) /\ Len(results[i].vectors) >= 2
    /\ overall.total_vectors > overall.processed_frames

\* C29: every accepted vector's center is inside the frame as it was
\* loaded, 0 <= x < w and 0 <= y < h, also when the detection was made on
\* the resized copy and its center was scaled back.
C29_CenterInsideFrame ==
    \A i \in 1..Len(results) :
        ~HasError(results[i]) =>
            \A v \in Range(results[i].vectors) :
                /\ 0 <= v.center[1] /\ v.center[1] < inputs[i].frame.w
                /\ 0 <= v.center[2] /\ v.center[2] < inputs[i].frame.h

\* an accepted vector detected in the last column and row of the resized
\* copy of a frame 675 wide and 400 high, with its center at (673, 398)
C29_Witness ==
    \E i \in 1..Len(results) :
        /\ inputs[i].frame.w = 675 /\ inputs[i].frame.h = 400
        /\ \E b \in Range(inputs[i].frame.blobs) : b.cx = 599 /\ b.cy = 354
        /\ \E v \in Range(results[i].vectors) :
               v.method = "ffmpeg" /\ v.center = <<673, 398>>

\* the submitted tasks of video name and style name
TasksLike(name, style) ==
    {f \in DOMAIN all_tasks :
        Stem(all_tasks[f].video_path) = name /\ all_tasks[f].style.name = style}

\* the records of video name and style name
RecordsLike(name, style) ==
    {i \in DOMAIN batch_results :
        batch_results[i].video = name /\ batch_results[i].style = style}

\* C30: process_video_batch returns one record per submitted task, whatever
\* the order in which the workers finish and whether a task succeeds, fails,
\* times out or raises: every record carries the video name and the style
\* name of a submitted task, at no time are there more records of a video
\* name and style name than tasks of them, and at the return there are as
\* many.
C30_OneRecordPerTask ==
    /\ \A i \in DOMAIN batch_results :
           /\ {"video", "style", "success"} \subseteq DOMAIN batch_results[i]
           /\ TasksLike(batch_results[i].video, batch_results[i].style) # {}
    /\ \A v \in Videos : \A k \in DOMAIN batch_styles :
           /\ Cardinality(RecordsLike(Stem(v), batch_styles[k].name))
                  <= Cardinality(TasksLike(Stem(v), batch_styles[k].name))
           /\ bpc = "returned" =>
                  Cardinality(RecordsLike(Stem(v), batch_styles[k].name))
                      = Cardinality(TasksLike(Stem(v), batch_styles[k].name))
    /\ bpc = "returned" => Len(batch_results) = Len(all_tasks)

\* a returned batch of two videos in which the last task submitted is the
\* first one recorded, and a task succeeded, one failed, one timed out and
\* one raised
C30_Witness ==
    /\ bpc = "returned"
    /\ Len(all_tasks) >= 4
    /\ Stem(all_tasks[1].video_path) # Stem(all_tasks[Len(all_tasks)].video_path)
    /\ batch_results[1].video = Stem(all_tasks[Len(all_tasks)].video_path)
    /\ batch_results[1].style = all_tasks[Len(all_tasks)].style.name
    /\ \E f \in DOMAIN futures : futures[f].outcome.raised
    /\ \E i \in DOMAIN batch_results : batch_results[i].success
    /\ \E i, j \in DOMAIN batch_results :
           /\ ~batch_results[i].success /\ batch_results[i].error = "CalledProcessError"
           /\ ~batch_results[j].success /\ batch_results[j].error = "TimeoutExpired"

====
